---- MODULE Spec2Model ----
(***************************************************************************)
(* Playback of a coverage run: scripts/animate/animate_coverage_run.py,    *)
(* and the path enumeration of scripts/tests/complexity_analysis.py.       *)
(*                                                                         *)
(* run_animation loads the visited-path log and the map-dynamics log,      *)
(* draws a white grid, a robot and a time label, and hands the frame       *)
(* indices 0 .. TS_LEN*len(visited)-1 to animate(), one call per frame.    *)
(* The frame clock is matplotlib's FuncAnimation(frames=int(frames)): one  *)
(* pass over range(frames), each callback run to its end before the next,  *)
(* an exception raised by a callback ending the pass (the pass that        *)
(* anim.save renders; the replay of the sequence in an interactive window  *)
(* is the library's and is not represented).                               *)
(*                                                                         *)
(* Representation.                                                         *)
(*   - a cell is <<x, y>>; Python's 0-based list index i is index i+1      *)
(*     of a TLA+ sequence;                                                 *)
(*   - a dict map_dynamics[ts] is the sequence of its items                *)
(*     <<cell, occupied>> in iteration (insertion) order, keys distinct;   *)
(*   - a facecolor is the string handed to set_facecolor;                  *)
(*   - robot positions are exact rationals: a grid coordinate is held in   *)
(*     units of 1/TS_LEN cell, a plot coordinate in units of               *)
(*     1/(2*TS_LEN) cell (binary floating-point rounding is not            *)
(*     represented);                                                       *)
(*   - time_label holds the number shown after "Time: ";                   *)
(*   - recoloured holds the cells whose square had set_facecolor called on *)
(*     it by the latest call of animate;                                   *)
(*   - np holds one top-level call num_paths(init_cell, t) in progress:    *)
(*     the call whose body is running (level), its prev_paths and paths,   *)
(*     the index i of the next path of its loop, and where it stands (pc); *)
(*   - a row handed out by csv.reader is the sequence of its fields, each  *)
(*     a string; map_csv holds the rows of the map file, and the reader    *)
(*     has consumed as many of them as map_dynamics has entries.           *)
(***************************************************************************)
EXTENDS Integers, Sequences, FiniteSets, TLC

\* ------------------------------------------------------------------ bounds
\* x_len, y_len handed to run_animation
XLen == 2
YLen == 2
\* longest log (rows per file) that Init enumerates
MaxT == 2
\* most fields after the leading one in a row of a one-row map file
MaxFields == 6
\* largest t handed to num_paths
MaxPathT == 3

\* --------------------------------------------------------- program constants
TS_LEN == 10

FREE == "white"
OCCUPIED == "black"
COVERED_FREE == "lime"
COVERED_OCCUPIED == "#007500"

VARIABLES visited, map_csv, map_dynamics, grid, recoloured, robot, time_label,
          frames, frame, status, np

vars == <<visited, map_csv, map_dynamics, grid, recoloured, robot, time_label,
          frames, frame, status, np>>

\* ------------------------------------------------------------------ helpers
Min(a, b) == IF a < b THEN a ELSE b

MaxOf(S) == CHOOSE m \in S : \A n \in S : n <= m

\* Python: c in s, for a list s
InList(c, s) == \E i \in 1..Len(s) : s[i] = c

\* Python: s[:n], for a list s and n >= 0
SliceTo(s, n) == SubSeq(s, 1, Min(n, Len(s)))

\* keys of a dict held as an item sequence
Keys(d) == {d[i][1] : i \in 1..Len(d)}

\* Python: d[k], for a key k of d
Lookup(d, k) == d[CHOOSE i \in 1..Len(d) : d[i][1] = k][2]

\* -------------------------------------------------------------- read_map
\* decimal numerals of one digit, with or without a sign
Digits == <<"0", "1", "2", "3", "4", "5", "6", "7", "8", "9">>

\* Python: str(n), for -9 <= n <= 9
str(n) == IF n >= 0 THEN Digits[n + 1] ELSE "-" \o Digits[(-n) + 1]

\* Python: int(s) returns for the numerals and raises ValueError otherwise
IsNumeral(s) == \E n \in -9..9 : str(n) = s

int(s) == CHOOSE n \in -9..9 : str(n) = s

\* Python: d[k] = v; an existing key keeps its place in the iteration order
DictSet(d, k, v) ==
    IF \E j \in 1..Len(d) : d[j][1] = k
    THEN [j \in 1..Len(d) |-> IF d[j][1] = k THEN <<k, v>> ELSE d[j]]
    ELSE Append(d, <<k, v>>)

\* the loop  for i in range(1, len(row) - 1, 3)  from index i on, map_at_ts
\* being d: the right-hand side int(row[i + 2]) is evaluated before the key
\* (int(row[i]), int(row[i + 1])); the first exception ends the loop
RECURSIVE ReadTriples(_, _, _)
ReadTriples(row, i, d) ==
    IF i >= Len(row) - 1
    THEN [map_at_ts |-> d, raised |-> "none"]
    ELSE IF i + 2 >= Len(row)
    THEN [map_at_ts |-> d, raised |-> "IndexError"]
    ELSE IF \/ ~IsNumeral(row[i + 3])
            \/ ~IsNumeral(row[i + 1])
            \/ ~IsNumeral(row[i + 2])
    THEN [map_at_ts |-> d, raised |-> "ValueError"]
    ELSE ReadTriples(row, i + 3,
                     DictSet(d, <<int(row[i + 1]), int(row[i + 2])>>,
                             int(row[i + 3])))

\* variant: the windows start at the leading field
read_row_lead(row) == ReadTriples(row, 0, << >>)

\* one pass of  for row in reader
read_row(row) == ReadTriples(row, 1, << >>)

\* ------------------------------------------------------------- num_paths
\* no call of num_paths is in progress
NoCall ==
    [init_cell |-> <<0, 0>>, t |-> 0, level |-> 0, prev_paths |-> << >>,
     i |-> 0, paths |-> << >>, pc |-> "none"]

\* variant: the second append steps to y - 1 again instead of y + 1
Extensions_repeat(path) ==
    LET last == path[Len(path)]
    IN  <<Append(path, <<last[1], last[2] - 1>>),
          Append(path, <<last[1], last[2] - 1>>),
          Append(path, <<last[1] - 1, last[2]>>),
          Append(path, <<last[1] + 1, last[2]>>),
          Append(path, last)>>

\* the five paths that one pass of the loop appends for path, in order
Extensions(path) ==
    LET last == path[Len(path)]
    IN  <<Append(path, <<last[1], last[2] - 1>>),
          Append(path, <<last[1], last[2] + 1>>),
          Append(path, <<last[1] - 1, last[2]>>),
          Append(path, <<last[1] + 1, last[2]>>),
          Append(path, last)>>

\* the call at level k returns value: to the caller at level k + 1, which
\* starts its loop over it, or out of the top-level call
Returned(c, value) ==
    IF c.level = c.t
    THEN [c EXCEPT !.paths = value, !.pc = "done"]
    ELSE [c EXCEPT !.level = c.level + 1, !.prev_paths = value,
                   !.paths = << >>, !.i = 1, !.pc = "loop"]

\* ------------------------------------------------------------- draw_grid
GridCells(x_len, y_len) == (0..(x_len - 1)) \X (0..(y_len - 1))

\* the square drawn for cell (x, y): plt.Rectangle((x, (y_len - y) - 1), 1, 1)
Rectangle(x, y, y_len) ==
    [xy |-> <<x, (y_len - y) - 1>>, width |-> 1, height |-> 1]

draw_grid(x_len, y_len) == [c \in GridCells(x_len, y_len) |-> FREE]

\* ------------------------------------------------- robot_grid_to_plot_pos
\* variant: the vertical axis is not flipped, (x + 0.5, y + 0.5)
robot_grid_to_plot_pos_noflip(x, y, y_len) ==
    <<2 * x + TS_LEN, 2 * y + TS_LEN>>

\* variant: the half cell is added instead of subtracted, (x + 0.5, y_len - y + 0.5)
robot_grid_to_plot_pos_sign(x, y, y_len) ==
    <<2 * x + TS_LEN, 2 * TS_LEN * y_len - 2 * y + TS_LEN>>

\* x, y in units of 1/TS_LEN cell; result in units of 1/(2*TS_LEN) cell:
\* (x + 0.5, y_len - (y + 0.5))
robot_grid_to_plot_pos(x, y, y_len) ==
    <<2 * x + TS_LEN, 2 * TS_LEN * y_len - (2 * y + TS_LEN)>>

generate_robot(start_loc, y_len) ==
    robot_grid_to_plot_pos(TS_LEN * start_loc[1], TS_LEN * start_loc[2], y_len)

\* ----------------------------------------------------------------- animate
\* variant: the timestep is rounded to the nearest instead of floored
Timestep_rounded(f) == (f + TS_LEN \div 2) \div TS_LEN

\* ts = frame // TS_LEN
Timestep(f) == f \div TS_LEN

\* variant: only the cell the robot is in at ts counts (cell == visited[ts])
Covered_current(vis, cell, ts) == ts < Len(vis) /\ vis[ts + 1] = cell

\* variant: the prefix stops before ts (cell in visited[:ts])
Covered_exclusive(vis, cell, ts) == InList(cell, SliceTo(vis, ts))

\* cell in visited[: ts + 1]
Covered(vis, cell, ts) == InList(cell, SliceTo(vis, ts + 1))

\* variant: the two covered colours are exchanged
CellColour_swapped(vis, occ, cell, ts) ==
    IF Covered(vis, cell, ts)
    THEN IF occ = 1 THEN COVERED_FREE ELSE COVERED_OCCUPIED
    ELSE IF occ = 1 THEN OCCUPIED ELSE FREE

\* the facecolor chosen by the if/else ladder for one cell of map_dynamics[ts]
CellColour(vis, occ, cell, ts) ==
    IF Covered(vis, cell, ts)
    THEN IF occ = 1 THEN COVERED_OCCUPIED ELSE COVERED_FREE
    ELSE IF occ = 1 THEN OCCUPIED ELSE FREE

\* variant: a cell that is no key of grid gets a square of its own
RECURSIVE SetGridCells_insert(_, _, _, _, _)
SetGridCells_insert(vis, row, g, ts, i) ==
    IF i > Len(row) THEN [grid |-> g, raised |-> "none"]
    ELSE SetGridCells_insert(vis, row,
             [c \in DOMAIN g \cup {row[i][1]} |->
                 IF c = row[i][1]
                 THEN CellColour(vis, row[i][2], row[i][1], ts)
                 ELSE g[c]],
             ts, i + 1)

\* variant: a cell that is no key of grid is passed over
RECURSIVE SetGridCells_skip(_, _, _, _, _)
SetGridCells_skip(vis, row, g, ts, i) ==
    IF i > Len(row) THEN [grid |-> g, raised |-> "none"]
    ELSE IF row[i][1] \notin DOMAIN g
    THEN SetGridCells_skip(vis, row, g, ts, i + 1)
    ELSE SetGridCells_skip(vis, row,
             [g EXCEPT ![row[i][1]] = CellColour(vis, row[i][2], row[i][1], ts)],
             ts, i + 1)

\* the loop "for cell in map_dynamics[ts]" from its i-th item on: grid[cell]
\* raises KeyError for a cell that is no key of grid, and the loop ends there
RECURSIVE SetGridCells(_, _, _, _, _)
SetGridCells(vis, row, g, ts, i) ==
    IF i > Len(row) THEN [grid |-> g, raised |-> "none"]
    ELSE IF row[i][1] \notin DOMAIN g THEN [grid |-> g, raised |-> "KeyError"]
    ELSE SetGridCells(vis, row,
             [g EXCEPT ![row[i][1]] = CellColour(vis, row[i][2], row[i][1], ts)],
             ts, i + 1)

\* the cells on whose square the loop "for cell in map_dynamics[ts]" calls
\* set_facecolor from its i-th item on: every cell up to the first one that
\* is no key of grid
RECURSIVE SetFacecolorCalls(_, _, _)
SetFacecolorCalls(row, g, i) ==
    IF i > Len(row) THEN {}
    ELSE IF row[i][1] \notin DOMAIN g THEN {}
    ELSE {row[i][1]} \cup SetFacecolorCalls(row, g, i + 1)

\* variant: the loop over the row runs in the first frame of a timestep only
set_facecolor_calls_first(md, g, f) ==
    IF f % TS_LEN # 0 \/ Timestep(f) >= Len(md) THEN {}
    ELSE SetFacecolorCalls(md[Timestep(f) + 1], g, 1)

\* the cells recoloured by the call of animate for frame f: the loop runs in
\* every call that gets as far as map_dynamics[ts]
set_facecolor_calls(md, g, f) ==
    IF Timestep(f) >= Len(md) THEN {}
    ELSE SetFacecolorCalls(md[Timestep(f) + 1], g, 1)

\* variant: the y coordinate is interpolated with the x coordinates' difference
RobotGridPos_xdiff(vis, f) ==
    LET ts == Timestep(f)
        prev_loc == vis[ts + 1]
        next_loc == IF ts < Len(vis) - 1 THEN vis[ts + 2] ELSE vis[ts + 1]
        k == f % TS_LEN
    IN  <<TS_LEN * prev_loc[1] + k * (next_loc[1] - prev_loc[1]),
          TS_LEN * prev_loc[2] + k * (next_loc[1] - prev_loc[1])>>

\* variant: the fraction counts the sub-frame from 1, ((frame % TS_LEN) + 1) / TS_LEN
RobotGridPos_ahead(vis, f) ==
    LET ts == Timestep(f)
        prev_loc == vis[ts + 1]
        next_loc == IF ts < Len(vis) - 1 THEN vis[ts + 2] ELSE vis[ts + 1]
        k == (f % TS_LEN) + 1
    IN  <<TS_LEN * prev_loc[1] + k * (next_loc[1] - prev_loc[1]),
          TS_LEN * prev_loc[2] + k * (next_loc[2] - prev_loc[2])>>

\* variant: in the final timestep the robot keeps moving as in its last move
RobotGridPos_extrapolate(vis, f) ==
    LET ts == Timestep(f)
        prev_loc == vis[ts + 1]
        next_loc == IF ts < Len(vis) - 1 THEN vis[ts + 2]
                    ELSE IF ts >= 1
                         THEN <<2 * vis[ts + 1][1] - vis[ts][1],
                                2 * vis[ts + 1][2] - vis[ts][2]>>
                         ELSE vis[ts + 1]
        k == f % TS_LEN
    IN  <<TS_LEN * prev_loc[1] + k * (next_loc[1] - prev_loc[1]),
          TS_LEN * prev_loc[2] + k * (next_loc[2] - prev_loc[2])>>

\* the robot's grid position at a frame, in units of 1/TS_LEN cell
RobotGridPos(vis, f) ==
    LET ts == Timestep(f)
        prev_loc == vis[ts + 1]
        next_loc == IF ts < Len(vis) - 1 THEN vis[ts + 2] ELSE vis[ts + 1]
        k == f % TS_LEN
    IN  <<TS_LEN * prev_loc[1] + k * (next_loc[1] - prev_loc[1]),
          TS_LEN * prev_loc[2] + k * (next_loc[2] - prev_loc[2])>>

\* y_len = max([k[1] for k in grid.keys()]) + 1
GridYLen(g) == MaxOf({c[2] : c \in DOMAIN g}) + 1

\* variant: every row is a full snapshot, cells it does not report are
\* repainted in the background colour
animate_snapshot(vis, md, g, rob, label, f) ==
    LET ts == Timestep(f) IN
    IF ts >= Len(vis)
    THEN [robot |-> rob, time_label |-> label, grid |-> g, raised |-> "IndexError"]
    ELSE
      LET pos == RobotGridPos(vis, f)
          centre == robot_grid_to_plot_pos(pos[1], pos[2], GridYLen(g))
      IN  IF ts >= Len(md)
          THEN [robot |-> centre, time_label |-> ts, grid |-> g,
                raised |-> "IndexError"]
          ELSE LET r == SetGridCells(vis, md[ts + 1],
                                     [c \in DOMAIN g |-> FREE], ts, 1)
               IN  [robot |-> centre, time_label |-> ts, grid |-> r.grid,
                    raised |-> r.raised]

\* variant: after the row's cells, every cell of visited[: ts + 1] that still
\* shows an uncovered colour is repainted in the matching covered colour
animate_refresh(vis, md, g, rob, label, f) ==
    LET ts == Timestep(f) IN
    IF ts >= Len(vis)
    THEN [robot |-> rob, time_label |-> label, grid |-> g, raised |-> "IndexError"]
    ELSE
      LET pos == RobotGridPos(vis, f)
          centre == robot_grid_to_plot_pos(pos[1], pos[2], GridYLen(g))
      IN  IF ts >= Len(md)
          THEN [robot |-> centre, time_label |-> ts, grid |-> g,
                raised |-> "IndexError"]
          ELSE LET r == SetGridCells(vis, md[ts + 1], g, ts, 1)
                   refreshed ==
                       [c \in DOMAIN g |->
                           IF ~Covered(vis, c, ts) THEN r.grid[c]
                           ELSE IF r.grid[c] = OCCUPIED THEN COVERED_OCCUPIED
                           ELSE IF r.grid[c] = FREE THEN COVERED_FREE
                           ELSE r.grid[c]]
               IN  [robot |-> centre, time_label |-> ts,
                    grid |-> IF r.raised = "none" THEN refreshed ELSE r.grid,
                    raised |-> r.raised]

\* one call animate(visited, map_dynamics, grid, robot, time_label, frame):
\* the values of the three drawing objects when the call ends, and the
\* exception it ends with ("none" for a normal return)
animate(vis, md, g, rob, label, f) ==
    LET ts == Timestep(f) IN
    IF ts >= Len(vis)
    THEN [robot |-> rob, time_label |-> label, grid |-> g, raised |-> "IndexError"]
    ELSE
      LET pos == RobotGridPos(vis, f)
          centre == robot_grid_to_plot_pos(pos[1], pos[2], GridYLen(g))
      IN  IF ts >= Len(md)
          THEN [robot |-> centre, time_label |-> ts, grid |-> g,
                raised |-> "IndexError"]
          ELSE LET r == SetGridCells(vis, md[ts + 1], g, ts, 1)
               IN  [robot |-> centre, time_label |-> ts, grid |-> r.grid,
                    raised |-> r.raised]

\* ------------------------------------------------------------ the inputs
SeqsOfLen(S, lo, hi) == UNION {[1..n -> S] : n \in lo..hi}

\* the visited log: the robot starts in StartCell and at every timestep
\* stays or moves one step along one axis inside the grid (the planner's
\* motion model; the program itself does not check it)
StartCell == <<0, 0>>

Adjacent(a, b) ==
    \/ a = b
    \/ a[1] = b[1] /\ (a[2] - b[2] = 1 \/ b[2] - a[2] = 1)
    \/ a[2] = b[2] /\ (a[1] - b[1] = 1 \/ b[1] - a[1] = 1)

Paths ==
    {p \in SeqsOfLen(GridCells(XLen, YLen), 1, MaxT) :
        /\ p[1] = StartCell
        /\ \A i \in 1..(Len(p) - 1) : Adjacent(p[i], p[i + 1])}

\* cells a row of the map log may report: the start cell, a neighbour of it,
\* and one cell outside the grid
NearCell == <<0, 1>>
OutCell == <<XLen, YLen>>
LogCells == {StartCell, NearCell, OutCell}

\* occupancy fields a row may hold: free, occupied, and a non-binary value
OccValues == {0, 1, 2}

\* the dict of one row, as its items in file order: no report, one report,
\* or two reports (two grid cells; an outside cell before a grid cell; a
\* grid cell before an outside cell)
Rows ==
    {<< >>}
    \cup {<< <<c, o>> >> : c \in LogCells, o \in OccValues}
    \cup {<< <<NearCell, 1>>, <<StartCell, 0>> >>,
          << <<OutCell, 1>>, <<NearCell, 1>> >>,
          << <<StartCell, 1>>, <<OutCell, 0>> >>}

\* the map log: up to MaxT rows, whatever the length of the visited log
MapLogs == SeqsOfLen(Rows, 0, MaxT)

\* the end-to-end scenario
ScenarioVisited == << <<0, 0>>, <<0, 1>>, <<1, 1>> >>
ScenarioMap == << <<(<< <<1, 1>>, 1 >>)>>, << >>, <<(<< <<0, 0>>, 0 >>)>> >>

\* the map file that holds the reports of md, row by row: the timestep, then
\* x, y, occupied for every report
CsvRow(ts, d) ==
    [j \in 1..(1 + 3 * Len(d)) |->
        IF j = 1 THEN str(ts)
        ELSE LET item == d[((j - 2) \div 3) + 1]
                 part == (j - 2) % 3
             IN  IF part = 0 THEN str(item[1][1])
                 ELSE IF part = 1 THEN str(item[1][2])
                 ELSE str(item[2])]

CsvOf(md) == [i \in 1..Len(md) |-> CsvRow(i - 1, md[i])]

\* fields of a map file: numerals in and out of {0, 1}, and a non-numeral
CsvFields == {"0", "1", "2", "-1", "x"}

\* the leading field of a row, which read_map never reads
LeadField == "0"

\* rows of a map file: a blank line, or the leading field and up to
\* MaxFields more fields
CsvRows ==
    {<< >>} \cup {<<LeadField>> \o b : b \in SeqsOfLen(CsvFields, 0, MaxFields)}

\* rows of the longer map files: a blank line, no report, one report, one
\* and two fields left over after a report, a report with occupancy 2, a
\* report after a leading field that is no numeral
FewRows ==
    {<< >>,
     <<"0">>,
     <<"0", "0", "0", "1">>,
     <<"0", "0", "0", "1", "1">>,
     <<"0", "0", "0", "1", "1", "1">>,
     <<"0", "0", "1", "2">>,
     <<"x", "1", "1", "0">>}

\* the map files: every one-row file, and up to MaxT of the rows above
CsvFiles == {<<r>> : r \in CsvRows} \cup SeqsOfLen(FewRows, 0, MaxT)

\* variant: one timestep per move instead of one per logged position
TotalFrames_moves(vis) == TS_LEN * (Len(vis) - 1)

\* number of frames handed to FuncAnimation
TotalFrames(vis) == TS_LEN * Len(vis)

\* --------------------------------------------------------- run_animation
Init ==
    /\ \/ visited \in Paths /\ map_dynamics \in MapLogs
       \/ visited = ScenarioVisited /\ map_dynamics = ScenarioMap
    /\ map_csv = CsvOf(map_dynamics)
    /\ grid = draw_grid(XLen, YLen)
    /\ recoloured = {}
    /\ np = NoCall
    /\ robot = generate_robot(visited[1], YLen)
    /\ time_label = 0
    /\ frames = TotalFrames(visited)
    /\ frame = 0
    /\ status = "running"

\* variant: the frame handed to animate follows the wall clock, which may
\* have run a whole timestep ahead of the frame counter
AnimateFrame_clock ==
    /\ status = "running"
    /\ \E late \in {0, TS_LEN} :
          /\ frame + late < frames
          /\ LET r == animate(visited, map_dynamics, grid, robot, time_label,
                              frame + late)
             IN  /\ r.raised = "none"
                 /\ robot' = r.robot
                 /\ time_label' = r.time_label
                 /\ grid' = r.grid
                 /\ recoloured' =
                        set_facecolor_calls(map_dynamics, grid, frame + late)
          /\ frame' = frame + late + 1
    /\ UNCHANGED <<np, visited, map_csv, map_dynamics, frames, status>>

\* variant: the last frame of the sequence is never handed to animate
AnimateFrame_stall ==
    /\ status = "running"
    /\ frame < frames - 1
    /\ LET r == animate(visited, map_dynamics, grid, robot, time_label, frame)
       IN  /\ r.raised = "none"
           /\ robot' = r.robot
           /\ time_label' = r.time_label
           /\ grid' = r.grid
           /\ recoloured' = set_facecolor_calls(map_dynamics, grid, frame)
    /\ frame' = frame + 1
    /\ UNCHANGED <<np, visited, map_csv, map_dynamics, frames, status>>

\* the next frame's call of animate returns normally
AnimateFrame ==
    /\ status = "running"
    /\ frame < frames
    /\ LET r == animate(visited, map_dynamics, grid, robot, time_label, frame)
       IN  /\ r.raised = "none"
           /\ robot' = r.robot
           /\ time_label' = r.time_label
           /\ grid' = r.grid
           /\ recoloured' = set_facecolor_calls(map_dynamics, grid, frame)
    /\ frame' = frame + 1
    /\ UNCHANGED <<np, visited, map_csv, map_dynamics, frames, status>>

\* variant: the exception is swallowed and the next frame is played
AnimateRaises_swallowed ==
    /\ status = "running"
    /\ frame < frames
    /\ LET r == animate(visited, map_dynamics, grid, robot, time_label, frame)
       IN  /\ r.raised # "none"
           /\ robot' = r.robot
           /\ time_label' = r.time_label
           /\ grid' = r.grid
           /\ recoloured' = set_facecolor_calls(map_dynamics, grid, frame)
    /\ frame' = frame + 1
    /\ UNCHANGED <<np, visited, map_csv, map_dynamics, frames, status>>

\* the next frame's call of animate raises: the run ends with the exception
AnimateRaises ==
    /\ status = "running"
    /\ frame < frames
    /\ LET r == animate(visited, map_dynamics, grid, robot, time_label, frame)
       IN  /\ r.raised # "none"
           /\ robot' = r.robot
           /\ time_label' = r.time_label
           /\ grid' = r.grid
           /\ recoloured' = set_facecolor_calls(map_dynamics, grid, frame)
           /\ status' = r.raised
    /\ UNCHANGED <<np, visited, map_csv, map_dynamics, frames, frame>>

\* the frame sequence is exhausted
Finish ==
    /\ status = "running"
    /\ frame = frames
    /\ status' = "finished"
    /\ UNCHANGED <<np, visited, map_csv, map_dynamics, grid, recoloured, robot,
                   time_label, frames, frame>>

Next == AnimateFrame \/ AnimateRaises \/ Finish

Spec == Init /\ [][Next]_vars

\* some key of the dict is no key of the grid that draw_grid builds
OffGrid(row) == \E c \in Keys(row) : c \notin GridCells(XLen, YLen)

\* the runs whose progress is examined: the logs have equal lengths and
\* report grid cells only, or (the runs that raise at once) the map log is
\* empty or its first row reports a cell off the grid
InitLive ==
    /\ Init
    /\ \/ /\ Len(map_dynamics) = Len(visited)
          /\ \A i \in 1..Len(map_dynamics) : ~OffGrid(map_dynamics[i])
       \/ map_dynamics = << >>
       \/ Len(map_dynamics) = 1 /\ OffGrid(map_dynamics[1])

\* a run that nothing aborts from outside: anim.save (or the window's timer)
\* keeps asking for the next frame as long as the sequence has one
SpecLive == InitLive /\ [][Next]_vars /\ WF_vars(Next)

\* ------------------------------------------- run_animation, loading the map
\* read_map is entered with the visited log loaded; the drawing objects are
\* shown as lines 196-206 build them once the load returns, and no step of
\* the load touches them
InitReadMap ==
    /\ visited = ScenarioVisited
    /\ map_csv \in CsvFiles
    /\ map_dynamics = << >>
    /\ grid = draw_grid(XLen, YLen)
    /\ recoloured = {}
    /\ np = NoCall
    /\ robot = generate_robot(visited[1], YLen)
    /\ time_label = 0
    /\ frames = TotalFrames(visited)
    /\ frame = 0
    /\ status = "reading"

\* the next row is decoded and its dict appended
ReadRow ==
    /\ status = "reading"
    /\ Len(map_dynamics) < Len(map_csv)
    /\ LET r == read_row(map_csv[Len(map_dynamics) + 1])
       IN  /\ r.raised = "none"
           /\ map_dynamics' = Append(map_dynamics, r.map_at_ts)
    /\ UNCHANGED <<np, visited, map_csv, grid, recoloured, robot, time_label,
                   frames, frame, status>>

\* decoding the next row raises: read_map ends with the exception
ReadRowRaises ==
    /\ status = "reading"
    /\ Len(map_dynamics) < Len(map_csv)
    /\ LET r == read_row(map_csv[Len(map_dynamics) + 1])
       IN  /\ r.raised # "none"
           /\ status' = r.raised
    /\ UNCHANGED <<np, visited, map_csv, map_dynamics, grid, recoloured, robot,
                   time_label, frames, frame>>

\* the reader is exhausted: return map_dynamics
ReturnMap ==
    /\ status = "reading"
    /\ Len(map_dynamics) = Len(map_csv)
    /\ status' = "loaded"
    /\ UNCHANGED <<np, visited, map_csv, map_dynamics, grid, recoloured, robot,
                   time_label, frames, frame>>

NextReadMap == ReadRow \/ ReadRowRaises \/ ReturnMap

SpecReadMap == InitReadMap /\ [][NextReadMap]_vars

\* -------------------------------------------- complexity_analysis.py
\* cells handed to num_paths as init_cell
InitCells == GridCells(XLen, YLen)

\* a call num_paths(init_cell, t) is entered; the animation script is not
\* running, and its objects are shown as it builds them
InitNumPaths ==
    /\ visited = ScenarioVisited
    /\ map_dynamics = ScenarioMap
    /\ map_csv = CsvOf(map_dynamics)
    /\ grid = draw_grid(XLen, YLen)
    /\ recoloured = {}
    /\ robot = generate_robot(visited[1], YLen)
    /\ time_label = 0
    /\ frames = TotalFrames(visited)
    /\ frame = 0
    /\ status = "complexity_analysis"
    /\ \E c \in InitCells : \E t \in 0..MaxPathT :
          np = [NoCall EXCEPT !.init_cell = c, !.t = t, !.level = t,
                              !.pc = "call"]

\* t > 0: the call recurses with t - 1
NumPathsRecurse ==
    /\ np.pc = "call"
    /\ np.level > 0
    /\ np' = [np EXCEPT !.level = np.level - 1]
    /\ UNCHANGED <<visited, map_csv, map_dynamics, grid, recoloured, robot,
                   time_label, frames, frame, status>>

\* t == 0: return [[init_cell]]
NumPathsBase ==
    /\ np.pc = "call"
    /\ np.level = 0
    /\ np' = Returned(np, << <<np.init_cell>> >>)
    /\ UNCHANGED <<visited, map_csv, map_dynamics, grid, recoloured, robot,
                   time_label, frames, frame, status>>

\* one pass of  for path in prev_paths: five appends to paths
NumPathsAppend ==
    /\ np.pc = "loop"
    /\ np.i <= Len(np.prev_paths)
    /\ np' = [np EXCEPT !.paths = np.paths \o Extensions(np.prev_paths[np.i]),
                        !.i = np.i + 1]
    /\ UNCHANGED <<visited, map_csv, map_dynamics, grid, recoloured, robot,
                   time_label, frames, frame, status>>

\* the loop is over: return paths
NumPathsReturn ==
    /\ np.pc = "loop"
    /\ np.i > Len(np.prev_paths)
    /\ np' = Returned(np, np.paths)
    /\ UNCHANGED <<visited, map_csv, map_dynamics, grid, recoloured, robot,
                   time_label, frames, frame, status>>

NextNumPaths ==
    NumPathsRecurse \/ NumPathsBase \/ NumPathsAppend \/ NumPathsReturn

SpecNumPaths == InitNumPaths /\ [][NextNumPaths]_vars

TypeOK ==
    /\ frame \in 0..frames
    /\ status \in {"running", "finished", "IndexError", "KeyError",
                    "reading", "loaded", "ValueError", "complexity_analysis"}
    /\ DOMAIN grid = GridCells(XLen, YLen)

\* ================================================================ claims
\* vocabulary of the claims, stated on the state and independent of the
\* operators above
T == Len(visited)

\* some frame's update has completed and no call of animate has raised;
\* DoneFrame is then the index of the latest completed frame, DoneTs its
\* timestep floor(f / S) and DoneRow the dict MapDynamics[DoneTs]
Played == frame >= 1 /\ status \in {"running", "finished"}
DoneFrame == frame - 1
DoneTs == (frame - 1) \div TS_LEN
DoneRow == map_dynamics[DoneTs + 1]

\* c is in VisitedPath[0..t]
InPrefix(c, t) == \E i \in 0..t : i < Len(visited) /\ visited[i + 1] = c

\* MapDynamics[t], empty when the map log has no row t
RowAt(t) == IF t < Len(map_dynamics) THEN map_dynamics[t + 1] ELSE << >>

InScenario == visited = ScenarioVisited /\ map_dynamics = ScenarioMap

\* C1: after a frame of timestep t, every cell that MapDynamics[t] reports
\* shows the colour resolved from its occupancy flag and from whether it is
\* in VisitedPath[0..t]: 1/covered -> COVERED_OCCUPIED, 1/not covered ->
\* OCCUPIED, 0/covered -> COVERED_FREE, 0/not covered -> FREE.
C1_ResolvedColour ==
    Played =>
        \A c \in Keys(DoneRow) :
            LET occ == Lookup(DoneRow, c) IN
            /\ (occ = 1 /\ InPrefix(c, DoneTs)) => grid[c] = "#007500"
            /\ (occ = 1 /\ ~InPrefix(c, DoneTs)) => grid[c] = "black"
            /\ (occ = 0 /\ InPrefix(c, DoneTs)) => grid[c] = "lime"
            /\ (occ = 0 /\ ~InPrefix(c, DoneTs)) => grid[c] = "white"

\* a frame has recoloured an occupied cell that the robot had already left
C1_Witness ==
    /\ Played
    /\ \E c \in Keys(DoneRow) :
          /\ Lookup(DoneRow, c) = 1
          /\ InPrefix(c, DoneTs)
          /\ c # visited[DoneTs + 1]
          /\ grid[c] = "#007500"

\* C2: a frame update of timestep t changes the colour of no grid cell that
\* is absent from MapDynamics[t].
C2_AbsentCellsKept ==
    [][\A c \in DOMAIN grid :
          c \notin Keys(RowAt(frame \div TS_LEN)) => grid'[c] = grid[c]]_vars

\* a frame of a later timestep has completed while a cell that its row does
\* not report shows a colour other than the background
C2_Witness ==
    /\ Played
    /\ DoneTs >= 1
    /\ \E c \in DOMAIN grid : c \notin Keys(DoneRow) /\ grid[c] # "white"

\* C3, as stated: in the end-to-end scenario, after frame 20 the colour of
\* cell (1,1) is COVERED_OCCUPIED.
C3_Original ==
    (InScenario /\ Played /\ DoneFrame = 20) => grid[<<1, 1>>] = "#007500"

\* C3, amended: in the end-to-end scenario, after frame 20 the colour of cell
\* (1,1) is OCCUPIED: MapDynamics[2] does not report the cell, so it keeps
\* the colour it was given at timestep 0, when the robot had not reached it.
C3_Amended ==
    (InScenario /\ Played /\ DoneFrame = 20) => grid[<<1, 1>>] = "black"

\* the scenario has played frames 0..20
C3_Witness ==
    /\ InScenario /\ Played /\ DoneFrame = 20
    /\ time_label = 2
    /\ <<1, 1>> \notin Keys(DoneRow)

\* C4: in the end-to-end scenario, cell (1,1) is OCCUPIED after frame 0 and
\* after frame 10, and cell (0,0) is COVERED_FREE after frame 20.
C4_Scenario ==
    (InScenario /\ Played) =>
        /\ DoneFrame = 0 => grid[<<1, 1>>] = "black"
        /\ DoneFrame = 10 => grid[<<1, 1>>] = "black"
        /\ DoneFrame = 20 => grid[<<0, 0>>] = "lime"

\* the scenario has played frames 0..20 and the run has ended normally
C4_Witness ==
    /\ InScenario
    /\ status = "finished"
    /\ grid[<<0, 0>>] = "lime"
    /\ grid[<<1, 1>>] = "black"

\* C5: a frame update of timestep t >= 1 leaves OCCUPIED every cell that
\* showed OCCUPIED before it (for the first frame of t: at timestep t-1),
\* that MapDynamics[t] does not report and that is not in VisitedPath[0..t];
\* so the cell shows OCCUPIED after every frame of timestep t.
C5_CarryOver ==
    [][\A c \in DOMAIN grid :
          LET t == frame \div TS_LEN IN
          (/\ frame' = frame + 1
           /\ t >= 1
           /\ c \notin Keys(RowAt(t))
           /\ ~InPrefix(c, t)
           /\ grid[c] = "black") => grid'[c] = "black"]_vars

\* the last frame of a timestep t >= 1 has completed and a cell that was
\* painted OCCUPIED earlier, is not reported at t and was never visited
\* still shows OCCUPIED
C5_Witness ==
    /\ Played
    /\ DoneTs >= 1
    /\ DoneFrame % TS_LEN = TS_LEN - 1
    /\ \E c \in DOMAIN grid :
          /\ c \notin Keys(DoneRow)
          /\ ~InPrefix(c, DoneTs)
          /\ grid[c] = "black"

\* C6: the covered test of animate at timestep t is true of a cell exactly
\* when the cell is VisitedPath[i] for some 0 <= i <= t, and after a frame of
\* timestep t a reported cell shows a covered colour exactly in that case,
\* whatever occupancy the row reports for it.
C6_CoveredIffInPrefix ==
    /\ \A c \in GridCells(XLen, YLen) \cup {OutCell} : \A t \in 0..(T - 1) :
          Covered(visited, c, t) <=> (\E i \in 0..t : visited[i + 1] = c)
    /\ Played =>
          \A c \in Keys(DoneRow) :
              grid[c] \in {"lime", "#007500"}
                  <=> (\E i \in 0..DoneTs : visited[i + 1] = c)

\* a frame has painted, in a covered colour, a cell that the robot visited
\* at an earlier timestep only, and in an uncovered colour a row's cell that
\* the robot reaches later
C6_Witness ==
    /\ Played
    /\ T = 2
    /\ DoneTs = 1
    /\ \E c \in Keys(DoneRow) :
          /\ visited[1] = c /\ visited[2] # c
          /\ grid[c] \in {"lime", "#007500"}

\* C7: for every cell c and timestep t with t+1 < T, covered(c, t) implies
\* covered(c, t+1).
C7_CoverageMonotone ==
    \A c \in GridCells(XLen, YLen) \cup {OutCell} : \A t \in 0..(T - 2) :
        Covered(visited, c, t) => Covered(visited, c, t + 1)

\* a frame of timestep t+1 has painted as covered a cell that was covered at
\* t and that the robot has left at t+1
C7_Witness ==
    /\ Played
    /\ DoneTs >= 1
    /\ \E c \in Keys(DoneRow) :
          /\ Covered(visited, c, DoneTs - 1)
          /\ visited[DoneTs + 1] # c
          /\ Lookup(DoneRow, c) = 0
          /\ grid[c] = "lime"

\* colorOf(cell, t) for a cell that MapDynamics[t] reports with flag occ
\* (a flag other than 1 is read as free, as the renderer reads it)
ColorOf(c, occ, t) ==
    IF InPrefix(c, t)
    THEN IF occ = 1 THEN "#007500" ELSE "lime"
    ELSE IF occ = 1 THEN "black" ELSE "white"

\* the grid reconstructed for timestep t by replaying the timesteps 0..t in
\* order from an all-FREE grid, each reported cell resolved once per timestep
RECURSIVE Replayed(_)
Replayed(t) ==
    IF t < 0 THEN [c \in GridCells(XLen, YLen) |-> "white"]
    ELSE LET before == Replayed(t - 1)
             row == RowAt(t)
         IN  [c \in GridCells(XLen, YLen) |->
                 IF c \in Keys(row) THEN ColorOf(c, Lookup(row, c), t)
                 ELSE before[c]]

\* C8: after every frame of an in-order run, the colours kept incrementally
\* on the grid equal, cell by cell, the colours reconstructed for the frame's
\* timestep by a cumulative replay of timesteps 0..t from a fresh grid.
C8_IncrementalEqualsReplay ==
    Played => grid = Replayed(DoneTs)

\* the run is in a later sub-frame of a timestep t >= 1 whose row recolours a
\* cell that an earlier row had painted differently, and another cell still
\* carries an earlier row's colour
C8_Witness ==
    /\ Played
    /\ DoneTs >= 1
    /\ DoneFrame % TS_LEN >= 1
    /\ \E c \in Keys(DoneRow) : Replayed(DoneTs - 1)[c] # grid[c]
    /\ \E c \in DOMAIN grid : c \notin Keys(DoneRow) /\ grid[c] # "white"

\* C9: the number of frames of a run is S*T with S = TS_LEN and
\* T = len(VisitedPath): that many frames are requested, never more are
\* played, and a run that ends normally has played exactly that many.
C9_FrameCount ==
    /\ frames = TS_LEN * T
    /\ frame <= TS_LEN * T
    /\ status = "finished" => frame = TS_LEN * T

\* a run over a path of two timesteps has ended normally
C9_Witness ==
    /\ status = "finished"
    /\ T = 2
    /\ frame = 2 * TS_LEN

\* the update of frame f is fully applied: label, robot position and the
\* colours of the cells of MapDynamics[floor(f/S)]
FullyApplied(f) ==
    LET t == f \div TS_LEN
        k == f % TS_LEN
        prev == visited[t + 1]
        next == IF t + 1 < T THEN visited[t + 2] ELSE prev
        \* S*pos = S*prev + (f mod S)*(next - prev)
        x == TS_LEN * prev[1] + k * (next[1] - prev[1])
        y == TS_LEN * prev[2] + k * (next[2] - prev[2])
    IN  /\ time_label = t
        \* 2S*(pos.x + 0.5) and 2S*(y_len - (pos.y + 0.5))
        /\ robot = <<2 * x + TS_LEN, 2 * TS_LEN * YLen - 2 * y - TS_LEN>>
        /\ t < Len(map_dynamics)
        /\ \A c \in Keys(RowAt(t)) :
              c \in DOMAIN grid /\ grid[c] = ColorOf(c, Lookup(RowAt(t), c), t)

\* C10: the frame clock starts at 0, every step of it goes from f to f+1
\* with f <= S*T-1, and whenever the driver is about to start a frame (or has
\* ended the run) the update of the preceding frame is fully applied; a call
\* that raised is never followed by another frame.
C10_FramesInOrder ==
    /\ frame = 0
    /\ [][/\ status = "running"
          /\ frame' # frame => (frame' = frame + 1 /\ frame < TS_LEN * T)]_vars
    /\ []((status = "running" /\ frame >= 1) => FullyApplied(frame - 1))

\* the first frame of the second timestep has completed, its row repainted a
\* cell, and the driver is about to start the next frame
C10_Witness ==
    /\ status = "running"
    /\ frame = TS_LEN + 1
    /\ frame < frames
    /\ time_label = 1
    /\ Len(RowAt(1)) >= 1
    /\ visited[2] # visited[1]

\* the start of a run on an empty map log: one state for every visited log,
\* where what depends on the visited log and the grid alone is evaluated
AtStart == frame = 0 /\ status = "running" /\ map_dynamics = << >>

\* the latest call of animate has got past the label update: it returned, or
\* it raised in the lookup of the map row or of a grid cell; LastFrame is the
\* frame index of that call
Raised == status \in {"IndexError", "KeyError"}
Drawn == Played \/ Raised
LastFrame == IF Raised THEN frame ELSE frame - 1

\* C11: the timestep of frame f is floor(f / S), it lies in 0..T-1 for every
\* frame of the run, and the label after frame f shows exactly it.
C11_TimestepAndLabel ==
    /\ AtStart => \A f \in 0..(TS_LEN * T - 1) :
          /\ Timestep(f) \in 0..(T - 1)
          /\ TS_LEN * Timestep(f) <= f
          /\ f < TS_LEN * (Timestep(f) + 1)
    /\ Drawn => /\ TS_LEN * time_label <= LastFrame
                /\ LastFrame < TS_LEN * (time_label + 1)
                /\ time_label \in 0..(T - 1)

\* the last sub-frame of the second timestep has been drawn
C11_Witness ==
    /\ Played
    /\ DoneFrame = 2 * TS_LEN - 1
    /\ time_label = 1

\* position(f) in units of 1/S cell, from the path alone:
\* S*pos = S*prev + (f mod S)*(next - prev) on each axis, with
\* prev = VisitedPath[t], next = VisitedPath[t+1] if t+1 < T, else prev
ExpectedPos(f) ==
    LET t == f \div TS_LEN
        prev == visited[t + 1]
        next == IF t + 1 < T THEN visited[t + 2] ELSE prev
    IN  <<TS_LEN * prev[1] + (f % TS_LEN) * (next[1] - prev[1]),
          TS_LEN * prev[2] + (f % TS_LEN) * (next[2] - prev[2])>>

\* toRenderPosition of a position given in units of 1/S cell, in units of
\* 1/(2S) cell: (x + 0.5, y_len - (y + 0.5))
ToPlot(pos, y_len) ==
    <<2 * pos[1] + TS_LEN, 2 * TS_LEN * y_len - 2 * pos[2] - TS_LEN>>

C13_Boundary ==
    /\ AtStart => \A k \in 0..(T - 1) :
          RobotGridPos(visited, k * TS_LEN)
              = <<TS_LEN * visited[k + 1][1], TS_LEN * visited[k + 1][2]>>
    /\ (Drawn /\ LastFrame % TS_LEN = 0) =>
          robot = <<2 * TS_LEN * visited[LastFrame \div TS_LEN + 1][1] + TS_LEN,
                    2 * TS_LEN * YLen
                      - 2 * TS_LEN * visited[LastFrame \div TS_LEN + 1][2] - TS_LEN>>

\* the first frame of the second timestep is drawn, at the start of a move
C13_Witness ==
    /\ Played
    /\ DoneFrame = TS_LEN
    /\ T >= 2
    /\ visited[2] # visited[1]
    /\ robot = ToPlot(<<TS_LEN * visited[2][1], TS_LEN * visited[2][2]>>, YLen)

\* C14: at every frame of the final timestep T-1 the robot's position is
\* VisitedPath[T-1], so it is constant over the last S frames, and the
\* visited log is never read past its end: an IndexError can only come from
\* the lookup of the map row.
C14_FinalHold ==
    /\ AtStart => \A f \in (TS_LEN * (T - 1))..(TS_LEN * T - 1) :
          RobotGridPos(visited, f)
              = <<TS_LEN * visited[T][1], TS_LEN * visited[T][2]>>
    /\ (Drawn /\ LastFrame \div TS_LEN = T - 1) =>
          robot = <<2 * TS_LEN * visited[T][1] + TS_LEN,
                    2 * TS_LEN * YLen - 2 * TS_LEN * visited[T][2] - TS_LEN>>
    /\ status = "IndexError" => frame \div TS_LEN >= Len(map_dynamics)

\* the run has ended normally after a final timestep that followed a move
C14_Witness ==
    /\ status = "finished"
    /\ T >= 2
    /\ visited[T] # visited[T - 1]
    /\ robot = ToPlot(<<TS_LEN * visited[T][1], TS_LEN * visited[T][2]>>, YLen)

\* the centre of a drawn square, in units of 1/(2S) cell
CentreOf(rect) ==
    <<2 * TS_LEN * rect.xy[1] + TS_LEN * rect.width,
      2 * TS_LEN * rect.xy[2] + TS_LEN * rect.height>>

\* C15: robot_grid_to_plot_pos maps (x, y) to (x + 0.5, y_len - (y + 0.5));
\* for every cell of the grid, with the y_len that animate derives from the
\* grid's keys, this is the centre of the square draw_grid made for the cell,
\* and the derived y_len is the y_len the grid was built with. A robot drawn
\* at a timestep boundary sits on the centre of its cell's square.
C15_RenderPosition ==
    /\ GridYLen(grid) = YLen
    /\ AtStart => \A c \in DOMAIN grid :
          /\ robot_grid_to_plot_pos(TS_LEN * c[1], TS_LEN * c[2], GridYLen(grid))
                = <<2 * TS_LEN * c[1] + TS_LEN,
                    2 * TS_LEN * YLen - (2 * TS_LEN * c[2] + TS_LEN)>>
          /\ robot_grid_to_plot_pos(TS_LEN * c[1], TS_LEN * c[2], GridYLen(grid))
                = CentreOf(Rectangle(c[1], c[2], YLen))
    /\ (Drawn /\ LastFrame % TS_LEN = 0) =>
          LET c == visited[LastFrame \div TS_LEN + 1]
          IN  robot = CentreOf(Rectangle(c[1], c[2], YLen))

\* the robot has been drawn at a timestep boundary on a cell of the lower row
C15_Witness ==
    /\ Played
    /\ DoneFrame = TS_LEN
    /\ visited[2] = <<0, 1>>
    /\ robot = CentreOf(Rectangle(0, 1, YLen))

\* the inverse mapping (px, py) -> (px - 0.5, y_len - py - 0.5), from units of
\* 1/(2S) cell to units of 1/(2S) cell
FromPlot(p, y_len) == <<p[1] - TS_LEN, 2 * TS_LEN * y_len - p[2] - TS_LEN>>

\* C16: for every integer cell (x, y) and every y_len, the inverse mapping
\* applied to robot_grid_to_plot_pos(x, y, y_len) gives (x, y) back, and
\* robot_grid_to_plot_pos sends distinct cells to distinct points; the cell
\* of a robot drawn at a timestep boundary is recovered from its centre.
C16_RoundTrip ==
    /\ AtStart => \A y_len \in 0..(YLen + 1) :
          /\ \A c \in DOMAIN grid \cup {OutCell} :
                FromPlot(robot_grid_to_plot_pos(TS_LEN * c[1], TS_LEN * c[2], y_len),
                         y_len)
                    = <<2 * TS_LEN * c[1], 2 * TS_LEN * c[2]>>
          /\ \A c, d \in DOMAIN grid :
                robot_grid_to_plot_pos(TS_LEN * c[1], TS_LEN * c[2], y_len)
                    = robot_grid_to_plot_pos(TS_LEN * d[1], TS_LEN * d[2], y_len)
                => c = d
    /\ (Drawn /\ LastFrame % TS_LEN = 0) =>
          LET c == visited[LastFrame \div TS_LEN + 1]
          IN  FromPlot(robot, YLen) = <<2 * TS_LEN * c[1], 2 * TS_LEN * c[2]>>

\* the robot has been drawn at a timestep boundary on a cell away from the
\* start, and the inverse mapping recovers that cell
C16_Witness ==
    /\ Played
    /\ DoneFrame = TS_LEN
    /\ visited[2] # StartCell
    /\ FromPlot(robot, YLen) = <<2 * TS_LEN * visited[2][1], 2 * TS_LEN * visited[2][2]>>

\* fields of a row after the leading one
BodyLen(r) == IF Len(r) = 0 THEN 0 ELSE Len(r) - 1

\* the fields after the leading one form a whole number of triples
WholeTriples(r) == BodyLen(r) % 3 = 0

\* the row the load stopped at
StoppedAt == map_csv[Len(map_dynamics) + 1]

LoadRaised == status \in {"IndexError", "ValueError", "MalformedLogError"}

\* C17: a load never accepts a row whose fields after the leading one are
\* not a whole number of triples (no such row is decoded, and no file holding
\* one is returned as loaded), and a load that stops at such a row stops with
\* MalformedLogError.
C17_Original ==
    /\ \A i \in 1..Len(map_dynamics) : WholeTriples(map_csv[i])
    /\ status = "loaded" => \A i \in 1..Len(map_csv) : WholeTriples(map_csv[i])
    /\ (LoadRaised /\ ~WholeTriples(StoppedAt)) => status = "MalformedLogError"

\* C18: every occupancy value that a load has decoded is 0 or 1, so that a
\* loaded map holds no other value for the renderer to read.
C18_Original ==
    \A i \in 1..Len(map_dynamics) :
        \A j \in 1..Len(map_dynamics[i]) : map_dynamics[i][j][2] \in {0, 1}

\* C19: when the visited log and the map log differ in length, no frame is
\* drawn: no call of animate completes or raises, and the run does not end
\* as a finished animation.
C19_Original ==
    Len(visited) # Len(map_dynamics) => (~Drawn /\ status # "finished")

\* some key of the dict is outside [0, x_len) x [0, y_len)
OutOfRange(row) ==
    \E c \in Keys(row) :
        ~(c[1] \in 0..(XLen - 1) /\ c[2] \in 0..(YLen - 1))

\* C20: a frame of a timestep whose dict reports a cell outside the grid
\* ends in KeyError instead of completing; no completed frame belongs to
\* such a timestep, KeyError arises from nothing else, and the grid never
\* gains a cell.
C20_FatalLookup ==
    /\ [][(/\ status = "running"
           /\ frame < frames
           /\ OutOfRange(RowAt(frame \div TS_LEN)))
          => (status' = "KeyError" /\ frame' = frame)]_vars
    /\ [](Played => ~OutOfRange(DoneRow))
    /\ [](status = "KeyError" => OutOfRange(RowAt(frame \div TS_LEN)))
    /\ [](DOMAIN grid = (0..(XLen - 1)) \X (0..(YLen - 1)))

\* the first frame of the second timestep met a cell outside the grid, after
\* a first timestep played in full
C20_Witness ==
    /\ status = "KeyError"
    /\ frame = TS_LEN
    /\ OutOfRange(RowAt(1))
    /\ ~OutOfRange(RowAt(0))
    /\ RowAt(0) # << >>

\* the playback state after frame f as a function of the two logs and f:
\* position and label from the visited log, colours from the replay of the
\* map log up to the frame's timestep
StateAfter(f) ==
    [robot |-> ToPlot(ExpectedPos(f), YLen),
     time_label |-> f \div TS_LEN,
     grid |-> Replayed(f \div TS_LEN)]

\* C21: after every completed frame f the robot position, the label and the
\* colour of every cell are the values of one function of VisitedPath,
\* MapDynamics and f, whatever happened before; two runs on the same logs
\* therefore agree frame by frame.
C21_Deterministic ==
    Played => [robot |-> robot, time_label |-> time_label, grid |-> grid]
                 = StateAfter(DoneFrame)

\* a run is in a sub-frame of its second timestep, the robot on the move and
\* a colour of the first timestep still on the grid
C21_Witness ==
    /\ Played
    /\ DoneFrame = TS_LEN + 3
    /\ T >= 3
    /\ visited[3] # visited[2]
    /\ \E c \in DOMAIN grid : c \notin Keys(DoneRow) /\ grid[c] = "black"

\* C22: no step of the playback changes VisitedPath or MapDynamics or the
\* key set of the grid; the map log still equals what the map file holds,
\* and the grid's keys are exactly {0..x_len-1} x {0..y_len-1}.
C22_LogsAndKeysFixed ==
    /\ [][/\ visited' = visited
          /\ map_dynamics' = map_dynamics
          /\ DOMAIN grid' = DOMAIN grid]_vars
    /\ [](map_csv = CsvOf(map_dynamics))
    /\ [](\A x \in 0..(XLen - 1) : \A y \in 0..(YLen - 1) : <<x, y>> \in DOMAIN grid)
    /\ [](\A c \in DOMAIN grid : c[1] \in 0..(XLen - 1) /\ c[2] \in 0..(YLen - 1))

\* a run of two timesteps has ended normally after repainting a cell
C22_Witness ==
    /\ status = "finished"
    /\ T = 2
    /\ Len(map_dynamics) = 2
    /\ \E c \in DOMAIN grid : grid[c] # "white"

\* the logs have equal lengths and every cell in them is inside the grid
ValidLogs ==
    /\ Len(map_dynamics) = Len(visited)
    /\ \A i \in 1..Len(visited) :
          visited[i][1] \in 0..(XLen - 1) /\ visited[i][2] \in 0..(YLen - 1)
    /\ \A i \in 1..Len(map_dynamics) : ~OutOfRange(map_dynamics[i])

\* C23: a run on valid logs that nothing aborts always goes on to end
\* normally with all S*T frames done, the last one drawn being frame S*T-1;
\* so it neither stops nor raises at an earlier frame.
C23_Completes ==
    ValidLogs ~> (/\ status = "finished"
                  /\ frame = TS_LEN * T
                  /\ Played /\ DoneFrame = TS_LEN * T - 1)

\* a run on valid logs of two timesteps, both rows reporting a cell, has
\* ended normally
C23_Witness ==
    /\ ValidLogs
    /\ T = 2
    /\ \A i \in 1..2 : map_dynamics[i] # << >>
    /\ status = "finished"
    /\ frame = 2 * TS_LEN

\* C24, as stated: among the S frames of one timestep only the first
\* recolours cells; a later sub-frame calls the resolver for no cell.
C24_Original ==
    (Played /\ DoneFrame % TS_LEN # 0) => recoloured = {}

\* C24, amended: every frame of timestep t, sub-frames included, resolves
\* and sets the colour of every cell of MapDynamics[t]; the colour set
\* depends on the occupancy, t and VisitedPath[0..t] only, not on the
\* sub-frame or the interpolated position, so a frame that is not the first
\* of its timestep leaves every colour as it was.
C24_Amended ==
    /\ [](Played => /\ recoloured = Keys(DoneRow)
                    /\ \A c \in recoloured :
                          grid[c] = ColorOf(c, Lookup(DoneRow, c), DoneTs))
    /\ [][(frame' = frame + 1 /\ frame % TS_LEN # 0) => grid' = grid]_vars

\* a later sub-frame of the first timestep, drawn with the robot between two
\* cells, has set the colour of a cell that the timestep's row reports
C24_Witness ==
    /\ Played
    /\ DoneFrame = 4
    /\ T >= 2
    /\ visited[2] # visited[1]
    /\ recoloured # {}
    /\ \E c \in recoloured : grid[c] # "white"

\* the integer a numeral field stands for
NumeralValue == ("0" :> 0) @@ ("1" :> 1) @@ ("2" :> 2) @@ ("-1" :> -1)

\* the j-th stride-3 window of a row after its leading field, j = 1, 2, ...:
\* the fields at (0-based) indices 3j-2, 3j-1, 3j
WindowCell(r, j) == <<NumeralValue[r[3 * j - 1]], NumeralValue[r[3 * j]]>>
WindowOcc(r, j) == NumeralValue[r[3 * j + 1]]

AllNumerals(r) == \A m \in 2..Len(r) : r[m] \in DOMAIN NumeralValue

\* the mapping d holds exactly the reports of the k windows of row r, a
\* later window for a cell overriding an earlier one
HoldsReports(d, r, k) ==
    /\ \A m, n \in 1..Len(d) : d[m][1] = d[n][1] => m = n
    /\ {d[m][1] : m \in 1..Len(d)} = {WindowCell(r, j) : j \in 1..k}
    /\ \A j \in 1..k :
          (\A j2 \in (j + 1)..k : WindowCell(r, j2) # WindowCell(r, j))
              => \E m \in 1..Len(d) :
                    d[m] = <<WindowCell(r, j), WindowOcc(r, j)>>

\* C25: the load appends one mapping per row, in row order; the mapping of a
\* row whose fields after the leading one are k complete triples of numerals
\* holds exactly those k reports, a later triple for a cell overriding an
\* earlier one, whatever the leading field is; a row with only the leading
\* field, or a blank one, gives the empty mapping; and no such row makes the
\* load raise.
C25_OneMappingPerRow ==
    /\ Len(map_dynamics) <= Len(map_csv)
    /\ status = "loaded" => Len(map_dynamics) = Len(map_csv)
    /\ \A i \in 1..Len(map_dynamics) :
          LET r == map_csv[i] IN
          /\ Len(r) <= 1 => map_dynamics[i] = << >>
          /\ (WholeTriples(r) /\ AllNumerals(r))
                => HoldsReports(map_dynamics[i], r, BodyLen(r) \div 3)
    /\ (status \in {"IndexError", "ValueError"} /\ WholeTriples(StoppedAt))
          => ~AllNumerals(StoppedAt)

\* a one-row file whose second triple reports the cell of the first again has
\* been loaded, the later occupancy kept
C25_Witness ==
    /\ status = "loaded"
    /\ map_csv = << <<"0", "0", "1", "1", "0", "1", "0">> >>
    /\ map_dynamics = << <<(<< <<0, 1>>, 0 >>)>> >>

\* the timesteps up to t whose row reports cell c
ReportedAt(c, t) == {u \in 0..t : \E m \in 1..Len(RowAt(u)) : RowAt(u)[m][1] = c}

\* the latest of a non-empty set of timesteps
Latest(S) == CHOOSE u \in S : \A v \in S : v <= u

\* the occupancy that the row of timestep u reports for cell c
OccAt(c, u) ==
    LET row == RowAt(u)
    IN  row[CHOOSE m \in 1..Len(row) : row[m][1] = c][2]

\* C26: after a completed frame of timestep t, every grid cell that no row
\* of timesteps 0..t reports is FREE, and every other cell shows the colour
\* resolved at the latest timestep u <= t that reports it, from the
\* occupancy reported at u and from whether the cell is in VisitedPath[0..u].
C26_LatestReport ==
    Played =>
        \A c \in DOMAIN grid :
            IF ReportedAt(c, DoneTs) = {}
            THEN grid[c] = "white"
            ELSE LET u == Latest(ReportedAt(c, DoneTs))
                     covered == \E i \in 0..u : visited[i + 1] = c
                 IN  grid[c] = IF OccAt(c, u) = 1
                               THEN (IF covered THEN "#007500" ELSE "black")
                               ELSE (IF covered THEN "lime" ELSE "white")

\* the robot stands on a cell that still shows the uncovered colour resolved
\* at the earlier timestep that last reported it, while another cell was
\* never reported
C26_Witness ==
    /\ Played
    /\ DoneTs = 1
    /\ \E c \in DOMAIN grid :
          /\ visited[2] = c /\ visited[1] # c
          /\ ReportedAt(c, 1) = {0}
          /\ grid[c] = "black"
    /\ \E c \in DOMAIN grid : ReportedAt(c, 1) = {} /\ grid[c] = "white"

CoveredColours == {"lime", "#007500"}

\* C27: no step of an in-order run takes a cell from a covered colour
\* (COVERED_FREE or COVERED_OCCUPIED) to another kind of colour; so a cell
\* once shown covered is shown covered at every later frame.
C27_CoveredStays ==
    [][\A c \in DOMAIN grid :
          grid[c] \in CoveredColours
              => (c \in DOMAIN grid' /\ grid'[c] \in CoveredColours)]_vars

\* a cell that the robot has left went from COVERED_OCCUPIED at the first
\* timestep to COVERED_FREE at the second
C27_Witness ==
    /\ Played
    /\ T = 2
    /\ DoneTs = 1
    /\ \E c \in DOMAIN grid :
          /\ visited[1] = c /\ visited[2] # c
          /\ ReportedAt(c, 1) = {0, 1}
          /\ OccAt(c, 0) = 1 /\ OccAt(c, 1) = 0
          /\ grid[c] = "lime"

\* VisitedPath[t+1] - VisitedPath[t] on axis a (1 for x, 2 for y)
Move(t, a) == visited[t + 2][a] - visited[t + 1][a]

Abs(n) == IF n < 0 THEN -n ELSE n

Between(n, a, b) == (a <= n /\ n <= b) \/ (b <= n /\ n <= a)

\* C29: at every frame the position lies, on each axis, between
\* VisitedPath[t] and VisitedPath[min(t+1, T-1)]; with every path point in
\* the grid the drawn robot's grid position is within [0, x_len-1] x
\* [0, y_len-1] and its centre within the drawn grid [0, x_len] x [0, y_len].
C29_InsideGrid ==
    /\ AtStart =>
          \A f \in 0..(TS_LEN * T - 1) : \A a \in 1..2 :
              LET t == f \div TS_LEN
                  u == IF t + 1 < T THEN t + 1 ELSE T - 1
              IN  Between(RobotGridPos(visited, f)[a],
                          TS_LEN * visited[t + 1][a], TS_LEN * visited[u + 1][a])
    /\ Drawn =>
          LET t == LastFrame \div TS_LEN
              u == IF t + 1 < T THEN t + 1 ELSE T - 1
              pos == FromPlot(robot, YLen)
          IN  /\ \A a \in 1..2 :
                    Between(pos[a], 2 * TS_LEN * visited[t + 1][a],
                            2 * TS_LEN * visited[u + 1][a])
              /\ Between(pos[1], 0, 2 * TS_LEN * (XLen - 1))
              /\ Between(pos[2], 0, 2 * TS_LEN * (YLen - 1))
              /\ Between(robot[1], 0, 2 * TS_LEN * XLen)
              /\ Between(robot[2], 0, 2 * TS_LEN * YLen)

\* the robot is drawn half-way between the first two cells of its path
C29_Witness ==
    /\ Played
    /\ DoneFrame = 5
    /\ T >= 2
    /\ visited[2] # visited[1]
    /\ FromPlot(robot, YLen) # <<2 * TS_LEN * visited[1][1], 2 * TS_LEN * visited[1][2]>>
    /\ FromPlot(robot, YLen) # <<2 * TS_LEN * visited[2][1], 2 * TS_LEN * visited[2][2]>>

\* the steps a robot can take in one timestep: one cell along one axis, or
\* none
Steps == {<<0, -1>>, <<0, 1>>, <<-1, 0>>, <<1, 0>>, <<0, 0>>}

\* the path that starts at c and takes the steps m[1], ..., m[n]
RECURSIVE PathOf(_, _, _)
PathOf(c, m, n) ==
    IF n = 0 THEN <<c>>
    ELSE LET p == PathOf(c, m, n - 1)
         IN  Append(p, <<p[n][1] + m[n][1], p[n][2] + m[n][2]>>)

\* every path of n steps from c
StepPaths(c, n) == {PathOf(c, m, n) : m \in [1..n -> Steps]}

\* two consecutive cells are equal or one step apart along one axis
OneStep(a, b) ==
    Abs(a[1] - b[1]) + Abs(a[2] - b[2]) <= 1

\* the list ps holds, once each, the paths of n steps from c, and nothing
\* else
ExactlyThePaths(ps, c, n) ==
    /\ Len(ps) = 5 ^ n
    /\ \A j \in 1..Len(ps) :
          /\ Len(ps[j]) = n + 1
          /\ ps[j][1] = c
          /\ \A k \in 1..n : OneStep(ps[j][k], ps[j][k + 1])
    /\ \A j, k \in 1..Len(ps) : ps[j] = ps[k] => j = k
    /\ {ps[j] : j \in 1..Len(ps)} = StepPaths(c, n)

\* C30: num_paths(init_cell, t) returns exactly 5^t paths, each of t+1 cells
\* starting at init_cell, each step a stay or one cell along one axis, and
\* every such path exactly once; the same holds of the value that every
\* inner call num_paths(init_cell, k) returns to its caller.
C30_NumPaths ==
    /\ np.pc = "done" => ExactlyThePaths(np.paths, np.init_cell, np.t)
    /\ (np.pc = "loop" /\ np.i = 1)
          => ExactlyThePaths(np.prev_paths, np.init_cell, np.level - 1)

\* a call with t = 2 has returned its 25 paths, among them the one that
\* steps away and back
C30_Witness ==
    /\ np.pc = "done"
    /\ np.t = 2
    /\ Len(np.paths) = 25
    /\ \E j \in 1..Len(np.paths) :
          np.paths[j] = <<np.init_cell,
                          <<np.init_cell[1] + 1, np.init_cell[2]>>,
                          np.init_cell>>
====
